---------------------------- MODULE Spec2Model ----------------------------
(***************************************************************************)
(* A model of github_pipeline: the GitHubAPIResource of resources.py (the  *)
(* paginated fetcher handle_repo_item, handle_releases, handle_issues,     *)
(* handle_main_repo_endpoint, get_metadata, execute_request) and           *)
(* extract_metadata of utils.py.                                           *)
(*                                                                         *)
(* Four specifications share the definitions of the code:                  *)
(*   Spec         one get_metadata call against a server that answers each *)
(*                request as it likes;                                     *)
(*   SpecFetch    one handle_releases call (handle_repo_item + len)        *)
(*                against a server whose pages are fixed, with requests    *)
(*                that may fail;                                           *)
(*   SpecIssues   the counting loop of handle_issues on a drawn item list; *)
(*   SpecExtract  extract_metadata on a drawn mapping.                     *)
(*                                                                         *)
(* Not modelled: the rounding of Python's float division (an average is    *)
(* kept as a fraction), and exceptions of the HTTP client other than the   *)
(* HTTPError of raise_for_status.                                          *)
(***************************************************************************)
EXTENDS Integers, Sequences, FiniteSets

VARIABLES
    pc,             \* get_metadata is at: "main" | "releases" | "issues" | "done" | "raised" ("idle": not called)
    exc,            \* the exception that left the running call, "none" if none
    metadata,       \* get_metadata's local `metadata` (a mapping key -> value)
    payload,        \* what handle_main_repo_endpoint returned (history)
    derived,        \* what handle_releases / handle_issues returned (history)
    path,           \* handle_repo_item's local `path`
    nested_list,    \* handle_repo_item's local `nested_list`
    flattened_list, \* handle_repo_item's return value
    fpc,            \* handle_repo_item: "idle" | "loop" | "returned" | "raised"
    requests,       \* every request sent so far: its caller and its path (history)
    response,       \* the caller's local `response`: the last one received
    statuses,       \* the status code of each response so far (history)
    logged,         \* number of HTTPErrors execute_request logged
    store,          \* SpecFetch: the server's pages
    arg_issues,     \* SpecIssues: the item list handle_issues iterates over
    ret_issues,     \* SpecIssues: what handle_issues returns
    repo_matadata,  \* SpecExtract: extract_metadata's argument
    extracted_data, \* SpecExtract: extract_metadata's return value
    hpc             \* SpecIssues / SpecExtract: "off" | "call" | "done"

vars == <<pc, exc, metadata, payload, derived, path, nested_list, flattened_list,
          fpc, requests, response, statuses, logged, store, arg_issues, ret_issues,
          repo_matadata, extracted_data, hpc>>

(***************************************************************************)
(* Bounds of the model.                                                    *)
(***************************************************************************)
NPages == 3
MaxPageLen == 2
MaxRequests == 4
MaxIssues == 2
MaxDay == 3
MaxFieldVal == 2

(* the number of seconds of a day, by which timedelta normalises .days *)
SecondsPerDay == 86400

(***************************************************************************)
(* JSON values.  An array carries its elements; an object met by a `for`   *)
(* loop or a list comprehension yields its keys, in order.                 *)
(***************************************************************************)
JsonString(s) == [json |-> "string", text |-> s]

Time(d, s) == [day |-> d, sec |-> s]

NullTime == [day |-> -1, sec |-> 0]

(* Python's None / JSON null, and a value that is there *)
None == [isNone |-> TRUE, val |-> 0]

Some(v) == [isNone |-> FALSE, val |-> v]

SeqsUpTo(S, n) == UNION {[1..k -> S] : k \in 0..n}

Range(f) == {f[x] : x \in DOMAIN f}

(***************************************************************************)
(* handle_issues, lines 231-263: the loop over the fetched items.          *)
(***************************************************************************)
(* (closed_at - created_at).days of two parsed '%Y-%m-%dT%H:%M:%SZ' stamps: *)
(* timedelta(days, seconds) normalised to 0 <= seconds < one day.          *)
DeltaDays(closed_at, created_at) ==
    ((closed_at.day - created_at.day) * SecondsPerDay
        + (closed_at.sec - created_at.sec)) \div SecondsPerDay

(* `total / count if count > 0 else 0`: the quotient as a fraction; den = 0 *)
(* stands for Python's ZeroDivisionError.                                  *)
AverageUnguarded(total, count) == [num |-> total, den |-> count]

Average(total, count) ==
    IF count > 0 THEN [num |-> total, den |-> count] ELSE [num |-> 0, den |-> 1]

Counters0 ==
    [open_issues |-> 0, closed_issues |-> 0, open_prs |-> 0, closed_prs |-> 0,
     issues_duration |-> 0, prs_duration |-> 0, exc |-> "none"]

(* one pass of the body of `for issue in issues` *)
CountIssueNoMarker(c, issue) ==
    IF issue.json # "object" THEN [c EXCEPT !.exc = "TypeError"]
    ELSE IF issue.state = "open" THEN [c EXCEPT !.open_issues = @ + 1]
    ELSE IF issue.state = "closed"
         THEN [c EXCEPT !.closed_issues = @ + 1,
                        !.issues_duration =
                            @ + DeltaDays(issue.closed_at, issue.created_at)]
    ELSE c

CountIssueDates(c, issue) ==
    IF issue.json # "object" THEN [c EXCEPT !.exc = "TypeError"]
    ELSE IF issue.state = "open"
         THEN IF issue.pull_request THEN [c EXCEPT !.open_prs = @ + 1]
              ELSE [c EXCEPT !.open_issues = @ + 1]
    ELSE IF issue.state = "closed"
         THEN IF issue.pull_request
              THEN [c EXCEPT !.closed_prs = @ + 1,
                             !.prs_duration = @ + (issue.closed_at.day - issue.created_at.day)]
              ELSE [c EXCEPT !.closed_issues = @ + 1,
                             !.issues_duration = @ + (issue.closed_at.day - issue.created_at.day)]
    ELSE c

CountIssue(c, issue) ==
    IF issue.json # "object" THEN [c EXCEPT !.exc = "TypeError"]
    ELSE IF issue.state = "open"
         THEN IF issue.pull_request THEN [c EXCEPT !.open_prs = @ + 1]
              ELSE [c EXCEPT !.open_issues = @ + 1]
    ELSE IF issue.state = "closed"
         THEN IF issue.pull_request
              THEN [c EXCEPT !.closed_prs = @ + 1,
                             !.prs_duration =
                                 @ + DeltaDays(issue.closed_at, issue.created_at)]
              ELSE [c EXCEPT !.closed_issues = @ + 1,
                             !.issues_duration =
                                 @ + DeltaDays(issue.closed_at, issue.created_at)]
    ELSE c

RECURSIVE IssueLoop(_, _, _)
IssueLoop(issues, i, c) ==
    IF i > Len(issues) \/ c.exc # "none" THEN c
    ELSE IssueLoop(issues, i + 1, CountIssue(c, issues[i]))

(* what handle_issues returns for the fetched list `issues` *)
handle_issues(issues) ==
    LET c == IssueLoop(issues, 1, Counters0) IN
    [exc |-> c.exc,
     open_issues |-> c.open_issues, closed_issues |-> c.closed_issues,
     open_prs |-> c.open_prs, closed_prs |-> c.closed_prs,
     average_issue_duration |->
         IF c.exc = "none" THEN Average(c.issues_duration, c.closed_issues)
         ELSE Average(0, 0),
     average_pr_duration |->
         IF c.exc = "none" THEN Average(c.prs_duration, c.closed_prs)
         ELSE Average(0, 0)]

(***************************************************************************)
(* extract_metadata, utils.py.                                             *)
(***************************************************************************)
ReportKeys ==
    {"stars", "forks", "watchers", "releases", "open issues", "closed issues",
     "avg days until issue was closed", "open PRs", "closed PRs",
     "avg days until PR was closed"}

SourceField(rk) ==
    CASE rk = "stars" -> "stargazers_count"
      [] rk = "forks" -> "forks_count"
      [] rk = "watchers" -> "subscribers_count"
      [] rk = "releases" -> "release_count"
      [] rk = "open issues" -> "open_issues"
      [] rk = "closed issues" -> "closed_issues"
      [] rk = "avg days until issue was closed" -> "average_issue_duration"
      [] rk = "open PRs" -> "open_prs"
      [] rk = "closed PRs" -> "closed_prs"
      [] OTHER -> "average_pr_duration"

(* dict.get(key): the value, or None when the key is missing *)
GetDefaultZero(m, key) == IF key \in DOMAIN m THEN m[key] ELSE Some(0)

Get(m, key) == IF key \in DOMAIN m THEN m[key] ELSE None

extract_metadata(m) == [rk \in ReportKeys |-> Get(m, SourceField(rk))]

(***************************************************************************)
(* HTTP: header text, responses, execute_request.                          *)
(*                                                                         *)
(* Text is a sequence of tokens.  A Link header                            *)
(*     <u1>; rel="prev", <u2>; rel="next"                                  *)
(* is  "<" u1 ">; rel=" prev  ", "  "<" u2 ">; rel=" next.                  *)
(***************************************************************************)
Tok(t, r, p) == [tok |-> t, res |-> r, page |-> p]

Url(res, page) == Tok("url", res, page)

Lt == Tok("<", "", 0)

RelTok(rel) == Tok(">; rel=", rel, 0)

Comma == Tok(", ", "", 0)

LinkEntry(url, rel) == <<Lt, url, RelTok(rel)>>

(* the header a page sends: an optional rel="prev" entry (to the first     *)
(* page), then an optional rel="next" entry to page `next`                 *)
LinkOf(res, has_prev, next) ==
    LET prev == LinkEntry(Url(res, 1), "prev")
        nxt  == LinkEntry(Url(res, next), "next")
    IN  CASE has_prev /\ next # 0 -> prev \o <<Comma>> \o nxt
          [] has_prev /\ next = 0 -> prev
          [] ~has_prev /\ next # 0 -> nxt
          [] OTHER -> <<>>

(* re.search(r'<(.*?)>; rel="next"', link_attr): the leftmost "<" that has *)
(* a later '>; rel="next"', and lazily everything up to the first such.    *)
ReSearch(link_attr) ==
    LET A == {a \in 1..Len(link_attr) : link_attr[a] = Lt
                  /\ \E b \in (a + 1)..Len(link_attr) : link_attr[b] = RelTok("next")}
    IN  IF A = {} THEN [matched |-> FALSE, group1 |-> <<>>]
        ELSE LET a == CHOOSE x \in A : \A y \in A : x <= y
                 b == CHOOSE x \in (a + 1)..Len(link_attr) :
                          /\ link_attr[x] = RelTok("next")
                          /\ \A y \in (a + 1)..(x - 1) : link_attr[y] # RelTok("next")
             IN  [matched |-> TRUE, group1 |-> SubSeq(link_attr, a + 1, b - 1)]

EmptyMap == [x \in {} |-> 0]

Array(elems) == [type |-> "array", elems |-> elems, fields |-> EmptyMap]

(* a JSON object: its keys in order, and its fields *)
Object(keys, fields) ==
    [type |-> "object",
     elems |-> [i \in 1..Len(keys) |-> JsonString(keys[i])],
     fields |-> fields]

NoValue == [type |-> "none", elems |-> <<>>, fields |-> EmptyMap]

(* before the first request there is no response *)
NoResponse == [status |-> 0, json |-> FALSE, value |-> NoValue, link |-> <<>>]

(* the JSON body of the API's error responses *)
ErrorObject ==
    Object(<<"message", "documentation_url">>,
           [k \in {"message", "documentation_url"} |-> 0])

(* an error response: a 404 with the API's JSON error object, or a 500     *)
(* whose body is not JSON; neither carries a Link header                   *)
ErrorResponse(kind) ==
    IF kind = "json"
    THEN [status |-> 404, json |-> TRUE, value |-> ErrorObject, link |-> <<>>]
    ELSE [status |-> 500, json |-> FALSE, value |-> NoValue, link |-> <<>>]

(* response.raise_for_status(): does it raise HTTPError? *)
RaiseForStatus(resp) == resp.status >= 400 /\ resp.status < 600

(* execute_request, lines 64-79: the response, whether the except clause   *)
(* logged an HTTPError, and the exception that leaves the method           *)
execute_request_reraise(resp) ==
    [response |-> resp,
     logged |-> IF RaiseForStatus(resp) THEN 1 ELSE 0,
     exc |-> IF RaiseForStatus(resp) THEN "HTTPError" ELSE "none"]

execute_request(resp) ==
    [response |-> resp,
     logged |-> IF RaiseForStatus(resp) THEN 1 ELSE 0,
     exc |-> "none"]

(* response.json() *)
Json(resp) ==
    IF resp.json THEN [exc |-> "none", value |-> resp.value]
    ELSE [exc |-> "JSONDecodeError", value |-> NoValue]

(* Python truth of a decoded array or object *)
Truthy(value) == Len(value.elems) > 0

(***************************************************************************)
(* handle_repo_item, lines 168-192.                                        *)
(***************************************************************************)
(* path = f'/repos/{owner}/{repo}/{suffix}': the first page of `suffix` *)
InitialPath(suffix) == <<Url(suffix, 1)>>

(* one pass of `while True` with the server's answer `resp`:               *)
(* ctl is "loop" (next pass), "break" or "raised"                          *)
handle_repo_item_pass(p, nl, resp) ==
    LET x == execute_request(resp)
        j == Json(x.response)
        link_attr == x.response.link
        match == ReSearch(link_attr)
        out(ctl, e, p2, nl2) ==
            [ctl |-> ctl, exc |-> e, path |-> p2, nested_list |-> nl2,
             logged |-> x.logged]
    IN  IF x.exc # "none" THEN out("raised", x.exc, p, nl)
        ELSE IF j.exc # "none" THEN out("raised", j.exc, p, nl)
        ELSE IF ~Truthy(j.value) THEN out("break", "none", p, nl)
        ELSE IF link_attr = <<>> THEN out("break", "none", p, Append(nl, j.value))
        ELSE IF ~match.matched THEN out("break", "none", p, Append(nl, j.value))
        ELSE out("loop", "none", match.group1, Append(nl, j.value))

(* [item for sublist in nested_list for item in sublist] *)
RECURSIVE Flatten(_)
Flatten(nl) == IF nl = <<>> THEN <<>> ELSE Head(nl).elems \o Flatten(Tail(nl))

(***************************************************************************)
(* The server.  A path names page k of a collection when it is exactly     *)
(* that page's URL; any other text names nothing and is answered 404.      *)
(***************************************************************************)
Resolve(suffix, p) ==
    IF Len(p) = 1 /\ p[1].tok = "url" /\ p[1].res = suffix
          /\ p[1].page \in 1..NPages
    THEN p[1].page ELSE 0

ReleaseItem(k, i) == [json |-> "object", id |-> <<k, i>>]

(* the i-th issue of page k: the first of a page is closed after k days,   *)
(* the others are open; those of even pages are pull requests              *)
IssueItem(k, i) ==
    [json |-> "object", id |-> <<k, i>>,
     state |-> IF i = 1 THEN "closed" ELSE "open",
     pull_request |-> (k % 2 = 0),
     created_at |-> Time(0, 0),
     closed_at |-> IF i = 1 THEN Time(k, 0) ELSE NullTime]

Items(suffix, k, n) ==
    [i \in 1..n |-> IF suffix = "releases" THEN ReleaseItem(k, i) ELSE IssueItem(k, i)]

PageResponse(suffix, k, pg) ==
    [status |-> 200, json |-> TRUE, value |-> Array(Items(suffix, k, pg.n)),
     link |-> LinkOf(suffix, pg.has_prev, pg.next)]

PageShapes == [n : 0..MaxPageLen, has_prev : BOOLEAN, next : 0..NPages]

(* the first page has no previous page to link to *)
ShapesOf(k) == {s \in PageShapes : s.has_prev => k > 1}

(* Spec's server: page k holds up to MaxPageLen items and links to page    *)
(* k + 1 or to none; any request may instead fail                          *)
AnyResponses(suffix, p) ==
    LET k == Resolve(suffix, p) IN
    IF k = 0 THEN {ErrorResponse("json"), ErrorResponse("html")}
    ELSE {PageResponse(suffix, k, pg) :
              pg \in {s \in ShapesOf(k) : s.next \in {0, k + 1} /\ s.next <= NPages}}
         \cup {ErrorResponse("json"), ErrorResponse("html")}

(* SpecFetch's server: the pages of `store`; `fail` is "none", or the kind *)
(* of error the request meets                                              *)
StoredResponse(suffix, p, fail) ==
    LET k == Resolve(suffix, p) IN
    IF k = 0 THEN ErrorResponse(IF fail = "none" THEN "json" ELSE fail)
    ELSE IF fail # "none" THEN ErrorResponse(fail)
    ELSE PageResponse(suffix, k, store[k])

(* the main endpoint's answers *)
MainResponses ==
    {[status |-> 200, json |-> TRUE, link |-> <<>>,
      value |-> Object(<<"stargazers_count">>,
                       [k \in {"stargazers_count"} |-> 5])],
     [status |-> 200, json |-> TRUE, link |-> <<>>,
      value |-> Object(<<"stargazers_count", "open_issues">>,
                       [k \in {"stargazers_count", "open_issues"} |->
                            IF k = "open_issues" THEN 7 ELSE 5])],
     ErrorResponse("json"), ErrorResponse("html")}

(***************************************************************************)
(* get_metadata, lines 100-119.                                            *)
(***************************************************************************)
DerivedKeys ==
    {"release_count", "open_issues", "closed_issues", "open_prs", "closed_prs",
     "average_issue_duration", "average_pr_duration"}

IssueKeys == DerivedKeys \ {"release_count"}

(* metadata[key] = value *)
SetDefault(m, key, value) ==
    [x \in DOMAIN m \cup {key} |-> IF x \in DOMAIN m THEN m[x] ELSE value]

SetItem(m, key, value) ==
    [x \in DOMAIN m \cup {key} |-> IF x = key THEN value ELSE m[x]]

(* lines 112-117 *)
SetIssueItems(m, r) ==
    LET m1 == SetItem(m, "open_issues", r.open_issues)
        m2 == SetItem(m1, "closed_issues", r.closed_issues)
        m3 == SetItem(m2, "open_prs", r.open_prs)
        m4 == SetItem(m3, "closed_prs", r.closed_prs)
        m5 == SetItem(m4, "average_issue_duration", r.average_issue_duration)
    IN  SetItem(m5, "average_pr_duration", r.average_pr_duration)

(* the order of get_metadata's calls: what follows each of them *)
NextCallIssuesFirst(call) ==
    CASE call = "main" -> "issues"
      [] call = "issues" -> "releases"
      [] OTHER -> "done"

NextCall(call) ==
    CASE call = "main" -> "releases"
      [] call = "releases" -> "issues"
      [] OTHER -> "done"

(* the suffix handle_releases / handle_issues pass to handle_repo_item *)
Suffix(call) == IF call = "issues" THEN "issues?state=all" ELSE "releases"

(* path = f'/repos/{owner}/{repo}' *)
MainPath == <<Tok("url", "", 0)>>

IsItemCall(call) == call \in {"releases", "issues"}

(* entering the call that follows `call`: handle_repo_item's locals are    *)
(* initialised when that call is one of its two users                      *)
Enter(call) ==
    /\ pc' = NextCall(call)
    /\ IF IsItemCall(NextCall(call))
       THEN /\ path' = InitialPath(Suffix(NextCall(call)))
            /\ nested_list' = <<>>
            /\ fpc' = "loop"
       ELSE /\ fpc' = IF call = "main" THEN fpc ELSE "returned"
            /\ UNCHANGED <<path, nested_list>>

Raise(e) == pc' = "raised" /\ exc' = e

Harness == <<store, arg_issues, ret_issues, repo_matadata, extracted_data, hpc>>

(* handle_main_repo_endpoint, lines 138-141, and line 101 *)
MainRequest ==
    /\ pc = "main"
    /\ \E resp \in MainResponses :
         LET x == execute_request(resp)
             j == Json(x.response)
         IN  /\ requests' = Append(requests, [call |-> "main", path |-> MainPath])
             /\ response' = resp
             /\ statuses' = Append(statuses, resp.status)
             /\ logged' = logged + x.logged
             /\ IF x.exc # "none" \/ j.exc # "none"
                THEN /\ Raise(IF x.exc # "none" THEN x.exc ELSE j.exc)
                     /\ UNCHANGED <<metadata, payload, path, nested_list, fpc>>
                ELSE /\ payload' = j.value.fields
                     /\ metadata' = j.value.fields
                     /\ exc' = exc
                     /\ Enter("main")
    /\ UNCHANGED <<derived, flattened_list>>
    /\ UNCHANGED Harness

(* one request of handle_repo_item on behalf of `call`; when the loop      *)
(* ends, the rest of the caller up to get_metadata's next call:            *)
(* handle_releases (lines 212-214, 106) or handle_issues (231-263, 112-117)*)
ItemRequest(call) ==
    /\ pc = call
    /\ fpc = "loop"
    /\ \E resp \in AnyResponses(Suffix(call), path) :
         LET it == handle_repo_item_pass(path, nested_list, resp)
             flat == Flatten(it.nested_list)
             r == handle_issues(flat)
         IN  /\ requests' = Append(requests, [call |-> call, path |-> path])
             /\ response' = resp
             /\ statuses' = Append(statuses, resp.status)
             /\ logged' = logged + it.logged
             /\ CASE it.ctl = "loop" ->
                       /\ path' = it.path
                       /\ nested_list' = it.nested_list
                       /\ UNCHANGED <<pc, exc, fpc, metadata, derived, flattened_list>>
                  [] it.ctl = "raised" ->
                       /\ Raise(it.exc)
                       /\ fpc' = "raised"
                       /\ UNCHANGED <<path, nested_list, metadata, derived, flattened_list>>
                  [] OTHER ->
                       /\ flattened_list' = flat
                       /\ IF call = "releases"
                          THEN /\ metadata' = SetItem(metadata, "release_count", Len(flat))
                               /\ derived' = SetItem(derived, "release_count", Len(flat))
                               /\ exc' = exc
                               /\ Enter(call)
                          ELSE IF r.exc # "none"
                          THEN /\ Raise(r.exc)
                               /\ fpc' = "returned"
                               /\ UNCHANGED <<path, nested_list, metadata, derived>>
                          ELSE /\ metadata' = SetIssueItems(metadata, r)
                               /\ derived' = [k \in DOMAIN derived \cup IssueKeys |->
                                                 IF k \in IssueKeys THEN r[k] ELSE derived[k]]
                               /\ exc' = exc
                               /\ Enter(call)
    /\ payload' = payload
    /\ UNCHANGED Harness

ReleasesRequest == ItemRequest("releases")

IssuesRequest == ItemRequest("issues")

Init ==
    /\ pc = "main"
    /\ exc = "none"
    /\ metadata = EmptyMap
    /\ payload = EmptyMap
    /\ derived = EmptyMap
    /\ path = <<>>
    /\ nested_list = <<>>
    /\ flattened_list = <<>>
    /\ fpc = "idle"
    /\ requests = <<>>
    /\ response = NoResponse
    /\ statuses = <<>>
    /\ logged = 0
    /\ store = <<>>
    /\ arg_issues = <<>>
    /\ ret_issues = handle_issues(<<>>)
    /\ repo_matadata = EmptyMap
    /\ extracted_data = EmptyMap
    /\ hpc = "off"

Next == MainRequest \/ ReleasesRequest \/ IssuesRequest

Spec == Init /\ [][Next]_vars

(***************************************************************************)
(* SpecFetch: one handle_releases call against fixed pages.                *)
(***************************************************************************)
DefaultPage == [n |-> 0, has_prev |-> FALSE, next |-> 0]

(* the pages the rel="next" links lead to from page 1 *)
RECURSIVE Linked(_, _)
Linked(st, S) ==
    LET T == S \cup ({st[k].next : k \in S} \ {0})
    IN  IF T = S THEN S ELSE Linked(st, T)

(* pages no link leads to are never asked for: they are left empty *)
Stores ==
    {st \in [1..NPages -> PageShapes] :
         \A k \in 1..NPages :
             /\ st[k] \in ShapesOf(k)
             /\ k \notin Linked(st, {1}) => st[k] = DefaultPage}

Fails == {"none", "json", "html"}

(* handle_releases: one request of handle_repo_item's loop, and at its end *)
(* lines 191-192 and `return len(releases)`                                *)
FetchRequest ==
    /\ pc = "idle"
    /\ fpc = "loop"
    /\ Len(requests) < MaxRequests
    /\ \E fail \in Fails :
         LET resp == StoredResponse("releases", path, fail)
             it == handle_repo_item_pass(path, nested_list, resp)
             flat == Flatten(it.nested_list)
         IN  /\ requests' = Append(requests, [call |-> "releases", path |-> path])
             /\ response' = resp
             /\ statuses' = Append(statuses, resp.status)
             /\ logged' = logged + it.logged
             /\ CASE it.ctl = "loop" ->
                       /\ path' = it.path
                       /\ nested_list' = it.nested_list
                       /\ UNCHANGED <<exc, fpc, derived, flattened_list>>
                  [] it.ctl = "raised" ->
                       /\ exc' = it.exc
                       /\ fpc' = "raised"
                       /\ UNCHANGED <<path, nested_list, derived, flattened_list>>
                  [] OTHER ->
                       /\ flattened_list' = flat
                       /\ derived' = SetItem(derived, "release_count", Len(flat))
                       /\ fpc' = "returned"
                       /\ nested_list' = it.nested_list
                       /\ UNCHANGED <<path, exc>>
    /\ UNCHANGED <<pc, metadata, payload>>
    /\ UNCHANGED Harness

InitFetch ==
    /\ pc = "idle"
    /\ exc = "none"
    /\ metadata = EmptyMap
    /\ payload = EmptyMap
    /\ derived = EmptyMap
    /\ path = InitialPath("releases")
    /\ nested_list = <<>>
    /\ flattened_list = <<>>
    /\ fpc = "loop"
    /\ requests = <<>>
    /\ response = NoResponse
    /\ statuses = <<>>
    /\ logged = 0
    /\ store \in Stores
    /\ arg_issues = <<>>
    /\ ret_issues = handle_issues(<<>>)
    /\ repo_matadata = EmptyMap
    /\ extracted_data = EmptyMap
    /\ hpc = "off"

NextFetch == FetchRequest

SpecFetch == InitFetch /\ [][NextFetch]_vars

(***************************************************************************)
(* SpecIssues: handle_issues' loop on a drawn list of issues.              *)
(***************************************************************************)
Times == {Time(d, s) : d \in 0..MaxDay, s \in {0, SecondsPerDay \div 2}}

Before(t, u) == t.day < u.day \/ (t.day = u.day /\ t.sec <= u.sec)

(* the issues the API lists: created on day 0, open, closed later, or in   *)
(* a state the loop does not know                                          *)
IssueInputs ==
    {[json |-> "object", id |-> <<0, 0>>, state |-> "open", pull_request |-> m,
      created_at |-> c, closed_at |-> NullTime] :
         m \in BOOLEAN, c \in {t \in Times : t.day = 0}}
    \cup
    {[json |-> "object", id |-> <<0, 0>>, state |-> "closed", pull_request |-> x[1],
      created_at |-> x[2], closed_at |-> x[3]] :
         x \in {y \in BOOLEAN \X Times \X Times : y[2].day = 0 /\ Before(y[2], y[3])}}
    \cup
    {[json |-> "object", id |-> <<0, 0>>, state |-> "draft", pull_request |-> FALSE,
      created_at |-> Time(0, 0), closed_at |-> NullTime]}

HandleIssuesCall ==
    /\ hpc = "call"
    /\ ret_issues' = handle_issues(arg_issues)
    /\ hpc' = "done"
    /\ UNCHANGED <<pc, exc, metadata, payload, derived, path, nested_list,
                   flattened_list, fpc, requests, response, statuses, logged, store,
                   arg_issues, repo_matadata, extracted_data>>

InitIssues ==
    /\ pc = "idle"
    /\ exc = "none"
    /\ metadata = EmptyMap
    /\ payload = EmptyMap
    /\ derived = EmptyMap
    /\ path = <<>>
    /\ nested_list = <<>>
    /\ flattened_list = <<>>
    /\ fpc = "idle"
    /\ requests = <<>>
    /\ response = NoResponse
    /\ statuses = <<>>
    /\ logged = 0
    /\ store = <<>>
    /\ arg_issues \in SeqsUpTo(IssueInputs, MaxIssues)
    /\ ret_issues = handle_issues(<<>>)
    /\ repo_matadata = EmptyMap
    /\ extracted_data = EmptyMap
    /\ hpc = "call"

NextIssues == HandleIssuesCall

SpecIssues == InitIssues /\ [][NextIssues]_vars

(***************************************************************************)
(* SpecExtract: extract_metadata on a drawn mapping.                       *)
(***************************************************************************)
InputFields ==
    <<"stargazers_count", "forks_count", "subscribers_count", "release_count",
      "open_issues", "closed_issues", "average_issue_duration", "open_prs",
      "closed_prs", "average_pr_duration", "name">>

FieldNo(key) == CHOOSE i \in 1..Len(InputFields) : InputFields[i] = key

(* the mappings drawn: any subset of the fields, the value of a field      *)
(* telling which field it is                                               *)
Mappings ==
    {[key \in S |-> Some(FieldNo(key) + Len(InputFields) * v)] :
         S \in SUBSET Range(InputFields), v \in 1..MaxFieldVal}

ExtractCall ==
    /\ hpc = "call"
    /\ extracted_data' = extract_metadata(repo_matadata)
    /\ hpc' = "done"
    /\ UNCHANGED <<pc, exc, metadata, payload, derived, path, nested_list,
                   flattened_list, fpc, requests, response, statuses, logged, store,
                   arg_issues, ret_issues, repo_matadata>>

InitExtract ==
    /\ pc = "idle"
    /\ exc = "none"
    /\ metadata = EmptyMap
    /\ payload = EmptyMap
    /\ derived = EmptyMap
    /\ path = <<>>
    /\ nested_list = <<>>
    /\ flattened_list = <<>>
    /\ fpc = "idle"
    /\ requests = <<>>
    /\ response = NoResponse
    /\ statuses = <<>>
    /\ logged = 0
    /\ store = <<>>
    /\ arg_issues = <<>>
    /\ ret_issues = handle_issues(<<>>)
    /\ repo_matadata \in Mappings
    /\ extracted_data = EmptyMap
    /\ hpc = "call"

NextExtract == ExtractCall

SpecExtract == InitExtract /\ [][NextExtract]_vars

(***************************************************************************)
(* Properties of handle_issues (SpecIssues).                               *)
(***************************************************************************)
IsOpenPr(x) == x.state = "open" /\ x.pull_request

IsOpenIssue(x) == x.state = "open" /\ ~x.pull_request

IsClosedPr(x) == x.state = "closed" /\ x.pull_request

IsClosedIssue(x) == x.state = "closed" /\ ~x.pull_request

IsOpenOrClosed(x) == x.state \in {"open", "closed"}

(* the positions in the list of the items of a kind *)
Indices(kind) ==
    {i \in 1..Len(arg_issues) :
        CASE kind = "open pr" -> IsOpenPr(arg_issues[i])
          [] kind = "open issue" -> IsOpenIssue(arg_issues[i])
          [] kind = "closed pr" -> IsClosedPr(arg_issues[i])
          [] kind = "closed issue" -> IsClosedIssue(arg_issues[i])
          [] OTHER -> IsOpenOrClosed(arg_issues[i])}

(* C4: every item is counted once, in the counter its state and its        *)
(* pull-request marker choose: each of the four counters is the number of  *)
(* items of its kind (so an open item with the marker is never counted as  *)
(* an open issue), and the four add up to the items that are open or       *)
(* closed.                                                                 *)
C4_OneCounterPerItem ==
    hpc = "done" =>
        /\ ret_issues.exc = "none"
        /\ ret_issues.open_prs = Cardinality(Indices("open pr"))
        /\ ret_issues.open_issues = Cardinality(Indices("open issue"))
        /\ ret_issues.closed_prs = Cardinality(Indices("closed pr"))
        /\ ret_issues.closed_issues = Cardinality(Indices("closed issue"))
        /\ ret_issues.open_issues + ret_issues.closed_issues
             + ret_issues.open_prs + ret_issues.closed_prs
           = Cardinality(Indices("open or closed"))

C4_Witness ==
    /\ hpc = "done"
    /\ Len(arg_issues) = 2
    /\ IsOpenPr(arg_issues[1])
    /\ arg_issues[2].state = "draft"
    /\ ret_issues.open_prs = 1
    /\ ret_issues.open_issues = 0

(* C5: with no closed plain issue the average issue duration is 0, with no *)
(* closed pull request the average pull-request duration is 0, each        *)
(* whatever the other is, and no division by zero happens.                 *)
C5_ZeroAverage ==
    hpc = "done" =>
        /\ ret_issues.average_issue_duration.den # 0
        /\ ret_issues.average_pr_duration.den # 0
        /\ Indices("closed issue") = {} => ret_issues.average_issue_duration.num = 0
        /\ Indices("closed pr") = {} => ret_issues.average_pr_duration.num = 0

C5_Witness ==
    /\ hpc = "done"
    /\ Indices("closed issue") = {}
    /\ Indices("closed pr") # {}
    /\ ret_issues.average_issue_duration.num = 0
    /\ ret_issues.average_pr_duration.num > 0

(* the whole days from created_at to closed_at: the most days that, added  *)
(* to created_at, do not pass closed_at                                    *)
Later(t, n) == Time(t.day + n, t.sec)

WholeDays(x) ==
    CHOOSE n \in 0..(MaxDay + 1) :
        /\ Before(Later(x.created_at, n), x.closed_at)
        /\ ~Before(Later(x.created_at, n + 1), x.closed_at)

RECURSIVE SumWholeDays(_)
SumWholeDays(I) ==
    IF I = {} THEN 0
    ELSE LET i == CHOOSE j \in I : TRUE
         IN  WholeDays(arg_issues[i]) + SumWholeDays(I \ {i})

(* the fraction q is total / count *)
IsQuotient(q, total, count) == q.den # 0 /\ q.num * count = total * q.den

(* C6: the average issue duration is the sum of the whole-day differences  *)
(* of the closed items without the marker, divided by their number, and    *)
(* the average pull-request duration likewise over the closed items with   *)
(* the marker; open items count in neither.                                *)
C6_AverageOfWholeDays ==
    hpc = "done" =>
        /\ Indices("closed issue") # {} =>
             IsQuotient(ret_issues.average_issue_duration,
                        SumWholeDays(Indices("closed issue")),
                        Cardinality(Indices("closed issue")))
        /\ Indices("closed pr") # {} =>
             IsQuotient(ret_issues.average_pr_duration,
                        SumWholeDays(Indices("closed pr")),
                        Cardinality(Indices("closed pr")))

(* an open issue, and one created 2024-01-01T00:00:00Z (day 0) and closed  *)
(* 2024-01-04T00:00:00Z (day 3): the average is 3                          *)
C6_Witness ==
    /\ hpc = "done"
    /\ Len(arg_issues) = 2
    /\ IsOpenIssue(arg_issues[1])
    /\ IsClosedIssue(arg_issues[2])
    /\ arg_issues[2].created_at = Time(0, 0)
    /\ arg_issues[2].closed_at = Time(3, 0)
    /\ ret_issues.average_issue_duration = [num |-> 3, den |-> 1]

(***************************************************************************)
(* Properties of extract_metadata (SpecExtract).                           *)
(***************************************************************************)
ReportedAs ==
    {<<"stars", "stargazers_count">>, <<"forks", "forks_count">>,
     <<"watchers", "subscribers_count">>, <<"releases", "release_count">>,
     <<"open issues", "open_issues">>, <<"closed issues", "closed_issues">>,
     <<"avg days until issue was closed", "average_issue_duration">>,
     <<"open PRs", "open_prs">>, <<"closed PRs", "closed_prs">>,
     <<"avg days until PR was closed", "average_pr_duration">>}

(* C8: whatever fields the mapping lacks, extract_metadata returns the ten *)
(* report keys, each with the value of its source field when the mapping   *)
(* has it and null when it has not, and leaves the mapping as it was.      *)
C8_ExtractTotal ==
    [][(hpc = "call" /\ hpc' = "done") =>
          /\ DOMAIN extracted_data' = {x[1] : x \in ReportedAs}
          /\ Cardinality(DOMAIN extracted_data') = 10
          /\ \A x \in ReportedAs :
                extracted_data'[x[1]] =
                    IF x[2] \in DOMAIN repo_matadata THEN repo_matadata[x[2]] ELSE None
          /\ repo_matadata' = repo_matadata]_vars

C8_Witness ==
    /\ hpc = "done"
    /\ "stargazers_count" \notin DOMAIN repo_matadata
    /\ "forks_count" \in DOMAIN repo_matadata
    /\ extracted_data["stars"] = None
    /\ extracted_data["forks"] = repo_matadata["forks_count"]

(***************************************************************************)
(* Properties of get_metadata (Spec).                                      *)
(***************************************************************************)
IsError(resp) == resp.status >= 400

Last(q) == q[Len(q)]

EndsWith(q, tail) ==
    /\ Len(tail) <= Len(q)
    /\ SubSeq(q, Len(q) - Len(tail) + 1, Len(q)) = tail

Calls(call) == {i \in DOMAIN requests : requests[i].call = call}

(* the response ends handle_repo_item's loop without an exception *)
EndsLoop(resp) ==
    /\ resp.json
    /\ \/ resp.value.elems = <<>>
       \/ ~\E b \in DOMAIN resp.link : resp.link[b] = RelTok("next")

(* C7: the main endpoint is requested once, first; then come the requests  *)
(* of the releases traversal, from its first page, and only when that has  *)
(* ended those of the issues traversal, from the first page of             *)
(* issues?state=all; get_metadata returns only when that has ended too.    *)
C7_CallOrder ==
    /\ requests # <<>> => Calls("main") = {1}
    /\ \A i \in Calls("releases"), j \in Calls("issues") : i < j
    /\ \A i \in DOMAIN requests :
          (i > 1 /\ requests[i - 1].call = "main") =>
              requests[i] = [call |-> "releases", path |-> <<Url("releases", 1)>>]
    /\ Calls("issues") # {} =>
          /\ Calls("releases") # {}
          /\ pc \in {"issues", "done", "raised"}
          /\ LET i == CHOOSE j \in Calls("issues") : \A k \in Calls("issues") : j <= k
             IN  requests[i].path = <<Url("issues?state=all", 1)>>
    /\ (pc = "issues" /\ Calls("issues") = {}) =>
          Last(requests).call = "releases" /\ EndsLoop(response)
    /\ pc = "done" => Last(requests).call = "issues" /\ EndsLoop(response)

C7_Witness ==
    /\ pc = "done"
    /\ Cardinality(Calls("releases")) >= 2
    /\ Cardinality(Calls("issues")) >= 2

(* C10: in the record get_metadata returns, each of the seven derived keys *)
(* holds what the releases and issues handlers returned, also when the     *)
(* main endpoint's payload has a key of that name; every other key of the  *)
(* payload is there with the payload's value, and there is no further key. *)
C10_DerivedKeysWin ==
    pc = "done" =>
        /\ DOMAIN metadata = DOMAIN payload \cup DerivedKeys
        /\ DOMAIN derived = DerivedKeys
        /\ \A k \in DerivedKeys : metadata[k] = derived[k]
        /\ \A k \in DOMAIN payload \ DerivedKeys : metadata[k] = payload[k]

C10_Witness ==
    /\ pc = "done"
    /\ "open_issues" \in DOMAIN payload
    /\ payload["open_issues"] # metadata["open_issues"]
    /\ metadata["open_issues"] = derived["open_issues"]
    /\ metadata["stargazers_count"] = payload["stargazers_count"]
    /\ metadata["release_count"] > 0

(***************************************************************************)
(* Properties of handle_repo_item (SpecFetch).                             *)
(***************************************************************************)
(* the pages met by following the rel="next" links from page 1, for at     *)
(* most `fuel` pages                                                       *)
RECURSIVE Walk(_, _)
Walk(k, fuel) ==
    IF fuel = 0 THEN <<>>
    ELSE IF store[k].next = 0 THEN <<k>>
    ELSE <<k>> \o Walk(store[k].next, fuel - 1)

Chain == Walk(1, NPages)

(* following the links ends, at a page without a rel="next" link *)
ChainEnds == store[Last(Chain)].next = 0

(* the links lead back to a page already met *)
ChainCycles == ~ChainEnds

RECURSIVE ItemsOf(_)
ItemsOf(pages) ==
    IF pages = <<>> THEN <<>>
    ELSE Items("releases", Head(pages), store[Head(pages)].n) \o ItemsOf(Tail(pages))

(* the pages a traversal without errors reads: up to the first empty one *)
RECURSIVE UpToEmpty(_)
UpToEmpty(pages) ==
    IF pages = <<>> \/ store[Head(pages)].n = 0 THEN <<>>
    ELSE <<Head(pages)>> \o UpToEmpty(Tail(pages))

(* every request for a page was answered with that page *)
NoRequestFailed ==
    \A i \in DOMAIN requests :
        Resolve("releases", requests[i].path) # 0 => statuses[i] < 400

Ended == fpc \in {"returned", "raised"}

(* C1: for a chain of non-empty pages, each but the last with a rel="next" *)
(* link to the following one and the last with none, handle_repo_item      *)
(* returns the pages' items, concatenated in page order.                   *)
C1_ReturnsConcatenation ==
    (/\ Ended
     /\ NoRequestFailed
     /\ ChainEnds
     /\ \A i \in DOMAIN Chain : store[Chain[i]].n > 0)
    => /\ fpc = "returned"
       /\ flattened_list = ItemsOf(Chain)
       /\ Len(flattened_list) = Len(ItemsOf(Chain))

(* C2: when a page in the middle of the pagination is answered with an     *)
(* HTTP error, handle_repo_item returns no more items, and handle_releases *)
(* no greater count, than the traversal without errors returns.            *)
C2_ErrorUndercounts ==
    (/\ fpc = "returned"
     /\ Len(requests) >= 2
     /\ IsError(response)
     /\ \A i \in DOMAIN requests : Resolve("releases", requests[i].path) # 0
     /\ ChainEnds
     /\ \A i \in DOMAIN Chain : ~store[Chain[i]].has_prev)
    => /\ Len(flattened_list) <= Len(ItemsOf(UpToEmpty(Chain)))
       /\ derived["release_count"] <= Len(ItemsOf(UpToEmpty(Chain)))

(* the URL of the header's first rel="next" entry *)
NextUrl(link) ==
    LET b == CHOOSE x \in DOMAIN link :
                 /\ link[x] = RelTok("next")
                 /\ \A y \in 1..(x - 1) : link[y] # RelTok("next")
    IN  link[b - 1]

Distinct(q) == \A i, j \in DOMAIN q : i # j => q[i] # q[j]

(* C9: the loop stops after the first response with an empty body, with no *)
(* Link header or with none whose entries include rel="next"; after any    *)
(* other it sends the next GET to exactly the URL of the rel="next" entry; *)
(* on a chain that ends it asks for each page once; and it does not return *)
(* when the links of non-empty pages form a cycle.                         *)
C9_LoopStopsOrFollowsNext ==
    /\ (requests # <<>> /\ response.json) =>
          IF EndsLoop(response) THEN fpc = "returned"
          ELSE fpc = "loop" /\ path = <<NextUrl(response.link)>>
    /\ (Ended /\ ChainEnds) => Distinct(requests)
    /\ (/\ ChainCycles
        /\ NoRequestFailed
        /\ \A i \in DOMAIN Chain : store[Chain[i]].n > 0)
       => fpc # "returned"

=============================================================================
